---- MODULE Spec2Model ----
(***************************************************************************)
(* Model of the m3gnet command line front end (src/m3gnet/cli.py): the     *)
(* argument parser built in main(), the dispatch on args.func, and the two *)
(* handlers relax_structure and run_md with their per-file loops.          *)
(*                                                                         *)
(* Strings that the code takes apart (file names, suffix, output file) are *)
(* sequences of one-character strings.  Optional values (a flag that may   *)
(* be absent, an attribute that may be None) are <<>> for absent / None    *)
(* and <<v>> for the value v.  Floats are counted in tenths.               *)
(***************************************************************************)
EXTENDS Integers, Sequences, FiniteSets, TLC

\* ------------------------------------------------------------------ bounds
MaxFiles == 2

\* ------------------------------------------------------ values and inputs
None == <<>>
Some(v) == <<v>>

\* File names given to -i: with an extension, a hidden file, no extension,
\* and a dot that belongs to the directory part.
FileNames ==
    { <<"a", ".", "c">>, <<".", "a">>, <<"a">>, <<"d", ".", "/", "a">> }

InfileLists == UNION { [1..n -> FileNames] : n \in 0..MaxFiles }

SuffixValues == { <<>>, <<"_", "r">> }
OutfileValues == { <<>>, <<"o">>, <<"a">> }

TempTokens == { "300", "hot" }
EnsembleTokens == { "npt" }
TimestepTokens == { "0.5", "2.0" }
TrajTokens == { "t.traj" }
LogTokens == { "l.log" }
LogintervalTokens == { "10" }
NstepsTokens == { "5" }

Opt(S) == { None } \cup { Some(v) : v \in S }

\* float(tok) and int(tok) on the tokens used; a token outside the table
\* makes the conversion raise ValueError, which argparse reports as an error.
FloatTable == ("300" :> 3000) @@ ("0.5" :> 5) @@ ("2.0" :> 20)
IntTable == ("10" :> 10) @@ ("5" :> 5)
IsFloat(tok) == tok \in DOMAIN FloatTable
IsInt(tok) == tok \in DOMAIN IntTable

\* What else stands on the command line besides the declared flags: nothing,
\* -h before or after the other flags, an option no parser declares, or (in
\* place of the subcommand) a word that is no subcommand.
TopExtras == { "none", "help_first", "unknown", "invalid_choice" }
SubExtras == { "none", "help_first", "help_last", "unknown" }

\* The command lines: no subcommand, relax with its flags, md with its flags.
Argvs ==
    [ cmd : {"none"}, extra : TopExtras ]
    \cup [ cmd : {"relax"}, extra : SubExtras,
           infile : Opt(InfileLists), verbose : BOOLEAN,
           suffix : Opt(SuffixValues), outfile : Opt(OutfileValues) ]
    \cup [ cmd : {"md"}, extra : SubExtras,
           infile : Opt(InfileLists), verbose : BOOLEAN,
           temp : Opt(TempTokens), ensemble : Opt(EnsembleTokens),
           timestep : Opt(TimestepTokens), trajectory : Opt(TrajTokens),
           logfile : Opt(LogTokens), loginterval : Opt(LogintervalTokens),
           nsteps : Opt(NstepsTokens) ]

\* ------------------------------------------------------- os.path.splitext
RECURSIVE RFind(_, _, _)
RFind(p, c, k) ==
    IF k = 0 THEN 0
    ELSE IF p[k] = c THEN k
    ELSE RFind(p, c, k - 1)

\* (root, ext): ext starts at the last dot of the last path component,
\* unless only dots precede it in that component.
SplitExt(p) ==
    LET sepIndex == RFind(p, "/", Len(p))
        dotIndex == RFind(p, ".", Len(p))
    IN  IF /\ dotIndex > sepIndex
           /\ \E k \in (sepIndex + 1)..(dotIndex - 1) : p[k] # "."
        THEN <<SubSeq(p, 1, dotIndex - 1), SubSeq(p, dotIndex, Len(p))>>
        ELSE <<p, <<>>>>

\* outfn = f"{basename}{args.suffix}{ext}"
OutFn(fn, suffix) == SplitExt(fn)[1] \o suffix \o SplitExt(fn)[2]

\* ---------------------------------------------------- the parser of main()
\* Namespace() before any attribute is set.
EmptyNamespace == [x \in {} |-> x]

DefaultVerbose == FALSE
DefaultEnsemble == "nvt"
DefaultTimestep == 20
DefaultTrajectory == "md.traj"
DefaultLogfile == "md.log"
DefaultLoginterval == 100
DefaultNsteps == 1000
NoDefault == "None"

\* Variant: -dt declared without required=True.
RequiredMd_NoTimestep == { "infile", "temp", "ensemble", "nsteps" }

\* Flags declared with required=True.
RequiredRelax == { "infile" }
RequiredMd == { "infile", "temp", "ensemble", "timestep", "nsteps" }

\* p_relax.add_mutually_exclusive_group: -s and -o.
MutexGroups == { { "suffix", "outfile" } }

MissingRequired(av, required) == \E f \in required : av[f] = None

\* nargs="+" wants at least one value after -i.
TooFewValues(av) == av.infile # None /\ Len(av.infile[1]) = 0

\* Variant: a flag counts as seen only when its value is truthy.
MutexConflict_Truthy(av) ==
    \E g \in MutexGroups :
        Cardinality({ f \in g : av[f] # None /\ Len(av[f][1]) > 0 }) > 1

\* A second flag of a group is refused once a first one has been seen; a
\* flag counts as seen when its value is not the default None, whatever the
\* value (the empty string too).
MutexConflict(av) ==
    \E g \in MutexGroups : Cardinality({ f \in g : av[f] # None }) > 1

\* type=float / type=int applied to a supplied token.
BadType(av) ==
    \/ av.temp # None /\ ~IsFloat(av.temp[1])
    \/ av.timestep # None /\ ~IsFloat(av.timestep[1])
    \/ av.loginterval # None /\ ~IsInt(av.loginterval[1])
    \/ av.nsteps # None /\ ~IsInt(av.nsteps[1])

\* The value of a dest: the supplied one, else the declared default.
WithDefault(opt, dflt) == IF opt = None THEN dflt ELSE opt[1]
FloatOrDefault(opt, dflt) == IF opt = None THEN dflt ELSE FloatTable[opt[1]]
IntOrDefault(opt, dflt) == IF opt = None THEN dflt ELSE IntTable[opt[1]]

\* An error raised while the flags are consumed, in command-line order.
ConsumeError(av) ==
    CASE av.cmd = "relax" -> TooFewValues(av) \/ MutexConflict(av)
      [] av.cmd = "md" -> TooFewValues(av) \/ BadType(av)
      [] OTHER -> FALSE

\* An error found once the whole command line has been consumed.
FinalError(av) ==
    CASE av.cmd = "relax" -> MissingRequired(av, RequiredRelax)
      [] av.cmd = "md" -> MissingRequired(av, RequiredMd)
      [] OTHER -> FALSE

\* How parse_args ends: the help action (added to the main parser and to
\* both subparsers by add_help) exits as soon as -h is consumed; an error
\* exits through parser.error; otherwise a Namespace is returned.
ParseOutcome(av) ==
    IF av.extra = "help_first" THEN "help"
    ELSE IF ConsumeError(av) THEN "error"
    ELSE IF av.extra = "help_last" THEN "help"
    ELSE IF FinalError(av) \/ av.extra \in { "unknown", "invalid_choice" } THEN "error"
    ELSE "namespace"

\* The parser whose help -h prints.
HelpOf(av) == IF av.cmd = "none" THEN "m3g" ELSE av.cmd

\* The Namespace parse_args returns when it does not exit.
ParseArgs(av) ==
    CASE av.cmd = "relax" ->
            [ func |-> "relax_structure",
              infile |-> WithDefault(av.infile, <<>>),
              verbose |-> av.verbose,
              suffix |-> av.suffix,
              outfile |-> av.outfile ]
      [] av.cmd = "md" ->
            [ func |-> "run_md",
              infile |-> WithDefault(av.infile, <<>>),
              verbose |-> av.verbose,
              temp |-> FloatOrDefault(av.temp, NoDefault),
              ensemble |-> WithDefault(av.ensemble, DefaultEnsemble),
              timestep |-> FloatOrDefault(av.timestep, DefaultTimestep),
              trajectory |-> WithDefault(av.trajectory, DefaultTrajectory),
              logfile |-> WithDefault(av.logfile, DefaultLogfile),
              loginterval |-> IntOrDefault(av.loginterval, DefaultLoginterval),
              nsteps |-> IntOrDefault(av.nsteps, DefaultNsteps) ]
      [] OTHER -> EmptyNamespace

\* getattr(args, "func") succeeds.
HasFunc(ns) == "func" \in DOMAIN ns

\* --------------------------------------------------- external collaborators
\* A structure is known by the file it was first read from and the number of
\* relaxations applied to it.
Original(fn) == [src |-> fn, relaxed |-> 0]

\* Structure.from_file(fn): what the file holds now.
FromFile(files, fn) == IF fn \in DOMAIN files THEN files[fn] ELSE Original(fn)

\* Relaxer().relax(s)["final_structure"]
FinalStructure(s) == [s EXCEPT !.relaxed = @ + 1]

\* final_structure.to(filename=path)
WriteFile(files, path, s) == (path :> s) @@ files

\* if args.suffix: / elif args.outfile is not None:
Truthy(opt) == opt # None /\ Len(opt[1]) > 0

\* The output of one iteration of relax_structure for input file fn.
OutputMode(ns) ==
    IF Truthy(ns.suffix) THEN "suffix"
    ELSE IF ns.outfile # None THEN "outfile"
    ELSE "console"

\* Variant: the explicit output name is made per input file.
OutputPath_PerInput(ns, fn) ==
    IF Truthy(ns.suffix) THEN OutFn(fn, ns.suffix[1])
    ELSE IF ns.outfile # None THEN OutFn(fn, ns.outfile[1])
    ELSE <<>>

OutputPath(ns, fn) ==
    IF OutputMode(ns) = "suffix" THEN OutFn(fn, ns.suffix[1])
    ELSE IF OutputMode(ns) = "outfile" THEN ns.outfile[1]
    ELSE <<>>

\* -------------------------------------------------------------------- state
VARIABLES
    argv,        \* the command line given to the process
    args,        \* the Namespace returned by parser.parse_args()
    pc,          \* where control is
    idx,         \* position of the for loop in args.infile (1-based)
    s,           \* local s of the running handler
    final,       \* local final_structure of relax_structure
    md,          \* local md of run_md
    files,       \* files written so far: path -> structure
    log,         \* external calls and prints made so far, in order
    handlerRet,  \* value returned by the handler
    mainRet,     \* value returned by main()
    exitCode     \* status passed to sys.exit / parser.error

vars == <<argv, args, pc, idx, s, final, md, files, log, handlerRet, mainRet, exitCode>>

Init ==
    /\ argv \in Argvs
    /\ args = EmptyNamespace
    /\ pc = "start"
    /\ idx = 0
    /\ s = None
    /\ final = None
    /\ md = None
    /\ files = [x \in {} |-> x]
    /\ log = <<>>
    /\ handlerRet = None
    /\ mainRet = None
    /\ exitCode = None

\* parser.error exits with 2, the help action with 0; main() exits with -1
\* when args has no func.
ExitUsage == 2
ExitHelp == 0
ExitNoFunc == -1

\* The first index of the loop and the step from one file to the next.
FirstIndex == 1
NextIndex(i) == i + 1

\* The file the loop is at.
Fn == args.infile[idx]

\* if args.verbose: the three prints after the read.
VerbosePrints(ns, i, st, last) ==
    IF ns.verbose
    THEN << [op |-> "print", i |-> i, text |-> "Starting structure"],
            [op |-> "print_structure", i |-> i, val |-> st],
            [op |-> "print", i |-> i, text |-> last] >>
    ELSE << >>

\* Variant: the final structure is printed only under args.verbose.
OutputEvents_VerboseOnly(ns, i, fn, fin) ==
    IF ~Truthy(ns.suffix) /\ ns.outfile = None
    THEN IF ns.verbose
         THEN << [op |-> "print", i |-> i, text |-> "Final structure"],
                 [op |-> "print_final", i |-> i, val |-> fin] >>
         ELSE << >>
    ELSE << [op |-> "write", i |-> i, path |-> OutputPath(ns, fn), val |-> fin],
            [op |-> "print_written", i |-> i, path |-> OutputPath(ns, fn)] >>

\* What one iteration of relax_structure emits for its output branch.
OutputEvents(ns, i, fn, fin) ==
    IF OutputMode(ns) = "console"
    THEN << [op |-> "print", i |-> i, text |-> "Final structure"],
            [op |-> "print_final", i |-> i, val |-> fin] >>
    ELSE << [op |-> "write", i |-> i, path |-> OutputPath(ns, fn), val |-> fin],
            [op |-> "print_written", i |-> i, path |-> OutputPath(ns, fn)] >>

\* Variant: temperature and timestep passed in each other's place.
MolecularDynamics_Swapped(ns, st) ==
    [ atoms |-> st,
      temperature |-> ns.timestep,
      ensemble |-> ns.ensemble,
      timestep |-> ns.temp,
      trajectory |-> ns.trajectory,
      logfile |-> ns.logfile,
      loginterval |-> ns.loginterval ]

\* MolecularDynamics(atoms=s, temperature=args.temp, ...)
MolecularDynamics(ns, st) ==
    [ atoms |-> st,
      temperature |-> ns.temp,
      ensemble |-> ns.ensemble,
      timestep |-> ns.timestep,
      trajectory |-> ns.trajectory,
      logfile |-> ns.logfile,
      loginterval |-> ns.loginterval ]

\* ------------------------------------------------------------------ main()
\* args = parser.parse_args(): exits with status 2 on an error.
main_parse_args ==
    /\ pc = "start"
    /\ CASE ParseOutcome(argv) = "help" ->
            /\ args' = args
            /\ log' = Append(log, [op |-> "print_help", i |-> 0, of |-> HelpOf(argv)])
            /\ exitCode' = Some(ExitHelp)
            /\ pc' = "exit"
         [] ParseOutcome(argv) = "error" ->
            /\ args' = args
            /\ log' = Append(log, [op |-> "usage_error", i |-> 0])
            /\ exitCode' = Some(ExitUsage)
            /\ pc' = "exit"
         [] OTHER ->
            /\ args' = ParseArgs(argv)
            /\ log' = log
            /\ exitCode' = exitCode
            /\ pc' = "parsed"
    /\ UNCHANGED <<argv, idx, s, final, md, files, handlerRet, mainRet>>

\* Variant: the help text is printed and the process exits with status 0.
main_no_func_ExitZero ==
    /\ pc = "parsed"
    /\ ~HasFunc(args)
    /\ log' = Append(log, [op |-> "print_help", i |-> 0, of |-> "m3g"])
    /\ exitCode' = Some(0)
    /\ pc' = "exit"
    /\ UNCHANGED <<argv, args, idx, s, final, md, files, handlerRet, mainRet>>

\* try: getattr(args, "func") except AttributeError: print_help, sys.exit(-1)
main_no_func ==
    /\ pc = "parsed"
    /\ ~HasFunc(args)
    /\ log' = Append(log, [op |-> "print_help", i |-> 0, of |-> "m3g"])
    /\ exitCode' = Some(ExitNoFunc)
    /\ pc' = "exit"
    /\ UNCHANGED <<argv, args, idx, s, final, md, files, handlerRet, mainRet>>

\* args.func(args): enter the handler.
main_call_func ==
    /\ pc = "parsed"
    /\ HasFunc(args)
    /\ pc' = IF args.func = "relax_structure" THEN "relax_for" ELSE "md_for"
    /\ idx' = FirstIndex
    /\ UNCHANGED <<argv, args, s, final, md, files, log, handlerRet, mainRet, exitCode>>

\* return args.func(args)
main_return ==
    /\ pc = "main_return"
    /\ mainRet' = handlerRet
    /\ pc' = "returned"
    /\ UNCHANGED <<argv, args, idx, s, final, md, files, log, handlerRet, exitCode>>

\* ------------------------------------------------------- relax_structure
\* for fn in args.infile: s = Structure.from_file(fn)
relax_read ==
    /\ pc = "relax_for"
    /\ idx <= Len(args.infile)
    /\ s' = FromFile(files, Fn)
    /\ log' = Append(log, [op |-> "read", i |-> idx, path |-> Fn, val |-> FromFile(files, Fn)])
    /\ pc' = IF args.verbose THEN "relax_verbose" ELSE "relax_relax"
    /\ UNCHANGED <<argv, args, idx, final, md, files, handlerRet, mainRet, exitCode>>

\* if args.verbose: print("Starting structure"); print(s); print("Relaxing...")
relax_verbose ==
    /\ pc = "relax_verbose"
    /\ log' = log \o VerbosePrints(args, idx, s, "Relaxing...")
    /\ pc' = "relax_relax"
    /\ UNCHANGED <<argv, args, idx, s, final, md, files, handlerRet, mainRet, exitCode>>

\* Variant: the output block sits after the loop instead of inside it.
relax_relax_OutputAfterLoop ==
    /\ pc = "relax_relax"
    /\ final' = FinalStructure(s)
    /\ log' = Append(log, [op |-> "relax", i |-> idx, val |-> s])
    /\ IF idx < Len(args.infile)
       THEN pc' = "relax_for" /\ idx' = idx + 1
       ELSE pc' = "relax_out" /\ idx' = idx
    /\ UNCHANGED <<argv, args, s, md, files, handlerRet, mainRet, exitCode>>

\* relaxer = Relaxer(); final_structure = relaxer.relax(s)["final_structure"]
relax_relax ==
    /\ pc = "relax_relax"
    /\ final' = FinalStructure(s)
    /\ log' = Append(log, [op |-> "relax", i |-> idx, val |-> s])
    /\ pc' = "relax_out"
    /\ UNCHANGED <<argv, args, idx, s, md, files, handlerRet, mainRet, exitCode>>

\* the if / elif / else that writes or prints final_structure
relax_output ==
    /\ pc = "relax_out"
    /\ files' = IF OutputMode(args) = "console" THEN files
                ELSE WriteFile(files, OutputPath(args, Fn), final)
    /\ log' = log \o OutputEvents(args, idx, Fn, final)
    /\ idx' = NextIndex(idx)
    /\ pc' = "relax_for"
    /\ UNCHANGED <<argv, args, s, final, md, handlerRet, mainRet, exitCode>>

\* the loop is exhausted: return 0
relax_return ==
    /\ pc = "relax_for"
    /\ idx > Len(args.infile)
    /\ handlerRet' = Some(0)
    /\ pc' = "main_return"
    /\ UNCHANGED <<argv, args, idx, s, final, md, files, log, mainRet, exitCode>>

\* ----------------------------------------------------------------- run_md
\* for fn in args.infile: s = Structure.from_file(fn)
md_read ==
    /\ pc = "md_for"
    /\ idx <= Len(args.infile)
    /\ s' = FromFile(files, Fn)
    /\ log' = Append(log, [op |-> "read", i |-> idx, path |-> Fn, val |-> FromFile(files, Fn)])
    /\ pc' = IF args.verbose THEN "md_verbose" ELSE "md_init"
    /\ UNCHANGED <<argv, args, idx, final, md, files, handlerRet, mainRet, exitCode>>

\* if args.verbose: print("Starting structure"); print(s); print("Running MD...")
md_verbose ==
    /\ pc = "md_verbose"
    /\ log' = log \o VerbosePrints(args, idx, s, "Running MD...")
    /\ pc' = "md_init"
    /\ UNCHANGED <<argv, args, idx, s, final, md, files, handlerRet, mainRet, exitCode>>

\* md = MolecularDynamics(atoms=s, ...)
md_init ==
    /\ pc = "md_init"
    /\ md' = MolecularDynamics(args, s)
    /\ log' = Append(log, [op |-> "md_init", i |-> idx, driver |-> MolecularDynamics(args, s)])
    /\ pc' = "md_run"
    /\ UNCHANGED <<argv, args, idx, s, final, files, handlerRet, mainRet, exitCode>>

\* md.run(steps=args.nsteps)
md_run ==
    /\ pc = "md_run"
    /\ log' = Append(log, [op |-> "md_run", i |-> idx, driver |-> md, steps |-> args.nsteps])
    /\ idx' = NextIndex(idx)
    /\ pc' = "md_for"
    /\ UNCHANGED <<argv, args, s, final, md, files, handlerRet, mainRet, exitCode>>

\* Variant: run_md ends without a return statement.
md_return_NoValue ==
    /\ pc = "md_for"
    /\ idx > Len(args.infile)
    /\ handlerRet' = None
    /\ pc' = "main_return"
    /\ UNCHANGED <<argv, args, idx, s, final, md, files, log, mainRet, exitCode>>

\* the loop is exhausted: return 0
md_return ==
    /\ pc = "md_for"
    /\ idx > Len(args.infile)
    /\ handlerRet' = Some(0)
    /\ pc' = "main_return"
    /\ UNCHANGED <<argv, args, idx, s, final, md, files, log, mainRet, exitCode>>

\* ------------------------------------------------------ a failing call
\* The call into an external object that control is about to make; printing
\* a structure calls its __str__.
PendingCall ==
    CASE pc = "relax_for" /\ idx <= Len(args.infile) -> "from_file"
      [] pc = "relax_verbose" -> "__str__"
      [] pc = "relax_relax" -> "relax"
      [] pc = "relax_out" /\ OutputMode(args) # "console" -> "to"
      [] pc = "relax_out" /\ OutputMode(args) = "console" -> "__str__"
      [] pc = "md_for" /\ idx <= Len(args.infile) -> "from_file"
      [] pc = "md_verbose" -> "__str__"
      [] pc = "md_init" -> "MolecularDynamics"
      [] pc = "md_run" -> "run"
      [] OTHER -> "none"

\* What the step has already printed when that call is made.
PrintedBefore ==
    CASE pc \in { "relax_verbose", "md_verbose" } ->
            << [op |-> "print", i |-> idx, text |-> "Starting structure"] >>
      [] pc = "relax_out" /\ OutputMode(args) = "console" ->
            << [op |-> "print", i |-> idx, text |-> "Final structure"] >>
      [] OTHER -> << >>

\* Variant: the loop body catches the exception and goes on to the next file.
external_raise_Swallowed ==
    /\ PendingCall # "none"
    /\ log' = log \o PrintedBefore \o << [op |-> "raise", i |-> idx, call |-> PendingCall] >>
    /\ pc' = IF args.func = "relax_structure" THEN "relax_for" ELSE "md_for"
    /\ idx' = idx + 1
    /\ UNCHANGED <<argv, args, s, final, md, files, handlerRet, mainRet, exitCode>>

\* The call raises.  Neither handler nor main() has a try around it, so the
\* exception leaves main() and the process ends with a traceback.
external_raise ==
    /\ PendingCall # "none"
    /\ log' = log \o PrintedBefore \o << [op |-> "raise", i |-> idx, call |-> PendingCall] >>
    /\ pc' = "raised"
    /\ UNCHANGED <<argv, args, idx, s, final, md, files, handlerRet, mainRet, exitCode>>

Next ==
    \/ main_parse_args
    \/ main_no_func
    \/ main_call_func
    \/ main_return
    \/ relax_read
    \/ relax_verbose
    \/ relax_relax
    \/ relax_output
    \/ relax_return
    \/ md_read
    \/ md_verbose
    \/ md_init
    \/ md_run
    \/ md_return
    \/ external_raise

Spec == Init /\ [][Next]_vars

\* ------------------------------------------------------- reading the log
EventsOf(ops) == SelectSeq(log, LAMBDA e : e.op \in ops)
CountOf(ops) == Len(EventsOf(ops))

HandlerOps == { "read", "relax", "write", "print_final", "print_written",
                "print", "print_structure", "md_init", "md_run", "raise" }
OutputOps == { "write", "print_final" }

\* No handler has run: nothing read, relaxed, simulated, written or returned.
NoHandlerRan ==
    /\ CountOf(HandlerOps) = 0
    /\ files = [x \in {} |-> x]
    /\ handlerRet = None
    /\ mainRet = None

\* The number of input files of a parsed command line.
N == Len(args.infile)

InRelax == HasFunc(args) /\ args.func = "relax_structure" /\ pc # "parsed"
InMd == HasFunc(args) /\ args.func = "run_md" /\ pc # "parsed"
HandlerReturned == pc \in { "main_return", "returned" }

\* ------------------------------------------------------------------ claims
\* C1: with no subcommand the help text is printed and the process exits
\* with status -1; no handler is called, nothing is read, relaxed or run.
C1_NoSubcommandHelpExit ==
    argv.cmd = "none" =>
        /\ pc \in { "start", "parsed", "exit" }
        /\ pc = "exit" =>
              /\ exitCode = Some(-1)
              /\ log = << [op |-> "print_help", i |-> 0, of |-> "m3g"] >>
        /\ NoHandlerRan

\* C1, amended: with no subcommand no handler is ever called.  With no
\* argument at all the help text is printed and the process exits with -1;
\* with -h the help text is printed and the status is 0; with an argument
\* the parser does not know the usage error is reported and the status is 2.
C1_NoArgumentsHelpExit ==
    argv.cmd = "none" =>
        /\ pc \in { "start", "parsed", "exit" }
        /\ pc = "start" => ENABLED main_parse_args
        /\ ~ENABLED main_call_func
        /\ NoHandlerRan
        /\ argv.extra = "none" =>
              /\ pc = "parsed" => ENABLED main_no_func
              /\ pc = "exit" =>
                    /\ exitCode = Some(-1)
                    /\ log = << [op |-> "print_help", i |-> 0, of |-> "m3g"] >>
        /\ argv.extra = "help_first" =>
              /\ pc # "parsed"
              /\ pc = "exit" =>
                    /\ exitCode = Some(0)
                    /\ log = << [op |-> "print_help", i |-> 0, of |-> "m3g"] >>
        /\ argv.extra \in { "unknown", "invalid_choice" } =>
              /\ pc # "parsed"
              /\ pc = "exit" =>
                    /\ exitCode = Some(2)
                    /\ log = << [op |-> "usage_error", i |-> 0] >>

C1_Witness ==
    /\ argv = [cmd |-> "none", extra |-> "none"]
    /\ pc = "exit"
    /\ exitCode = Some(-1)
    /\ CountOf({ "print_help" }) = 1

\* C2: relax given both -s and -o, whatever their values (the empty suffix
\* included), is rejected by the parser: no handler runs, nothing is read,
\* relaxed or written.
BothSuffixAndOutfile ==
    argv.cmd = "relax" /\ argv.suffix # None /\ argv.outfile # None

C2_SuffixOutfileRejected ==
    BothSuffixAndOutfile =>
        /\ pc \in { "start", "exit" }
        /\ pc = "start" => ENABLED main_parse_args
        /\ pc = "exit" =>
              IF argv.extra = "help_first"
              THEN exitCode = Some(0) /\ CountOf({ "print_help" }) = 1
              ELSE exitCode = Some(2) /\ CountOf({ "usage_error" }) = 1
        /\ args = EmptyNamespace
        /\ NoHandlerRan

C2_Witness ==
    /\ BothSuffixAndOutfile
    /\ argv.suffix = Some(<<>>)
    /\ argv.extra = "none"
    /\ argv.infile # None /\ Len(argv.infile[1]) >= 1
    /\ pc = "exit"
    /\ exitCode = Some(2)

\* C3: relax over N files whose external calls all succeed performs exactly
\* N output actions (a print of the final structure or a file write), the
\* i-th one carrying the relaxed structure read from the i-th input file.
ReadOf(i) == EventsOf({ "read" })[i]

C3_OneOutputPerFileInOrder ==
    InRelax =>
        LET outs == EventsOf(OutputOps)
        IN  /\ Len(outs) = idx - 1
            /\ HandlerReturned => Len(outs) = N /\ N >= 1
            /\ \A i \in 1..Len(outs) :
                  /\ outs[i].i = i
                  /\ ReadOf(i).path = args.infile[i]
                  /\ outs[i].val = FinalStructure(ReadOf(i).val)
                  /\ outs[i].op = "write" <=> OutputMode(args) # "console"

C3_Witness ==
    /\ InRelax
    /\ pc = "returned"
    /\ N = MaxFiles
    /\ CountOf(OutputOps) = MaxFiles
    /\ args.infile[1] # args.infile[2]

\* C4: whenever -s SUFFIX is supplied to relax, every suffix the parser
\* accepts included, each input file's relaxed structure is written to the
\* file named basename + suffix + extension of that input.
WrittenTo(i, path) ==
    \E k \in 1..Len(log) :
        /\ log[k].op = "write"
        /\ log[k].i = i
        /\ log[k].path = path

C4_SuffixGivenWritesSuffixedFile ==
    (InRelax /\ argv.suffix # None /\ HandlerReturned) =>
        \A i \in 1..N :
            LET root == SplitExt(args.infile[i])[1]
                ext == SplitExt(args.infile[i])[2]
            IN  WrittenTo(i, root \o argv.suffix[1] \o ext)

\* C4 holds of every run whose suffix is not empty: the name written is the
\* input name with the suffix put before the extension that splitext finds.
C4_NonEmptySuffixWritesSuffixedFile ==
    (InRelax /\ argv.suffix # None /\ argv.suffix[1] # <<>>) =>
        /\ \A i \in 1..(idx - 1) :
              LET root == SplitExt(args.infile[i])[1]
                  ext == SplitExt(args.infile[i])[2]
              IN  /\ WrittenTo(i, root \o argv.suffix[1] \o ext)
                  /\ root \o ext = args.infile[i]
                  /\ ext # <<>> => ext[1] = "." /\ Len(root) >= 1
                  /\ \A k \in 2..Len(ext) : ext[k] \notin { ".", "/" }
        /\ CountOf({ "print_final" }) = 0

C4_EmptySuffixPrints ==
    /\ InRelax
    /\ argv.suffix = Some(<<>>)
    /\ pc = "returned"
    /\ CountOf({ "write" }) = 0
    /\ CountOf({ "print_final" }) = N

\* C5: md passes the declared defaults of --traj, --log and --loginterval to
\* the driver when the flag is omitted and the supplied value otherwise; a
\* command line that omits one of the required -i, -t, -e, -dt, -n is
\* rejected before run_md is called, so their defaults never reach it.
MdRequiredOmitted ==
    \/ argv.infile = None
    \/ argv.temp = None
    \/ argv.ensemble = None
    \/ argv.timestep = None
    \/ argv.nsteps = None

C5_MdDefaults ==
    argv.cmd = "md" =>
        /\ MdRequiredOmitted =>
              /\ pc \in { "start", "exit" }
              /\ pc = "exit" =>
                    IF ParseOutcome(argv) = "help"
                    THEN exitCode = Some(0) /\ argv.extra \in { "help_first", "help_last" }
                    ELSE exitCode = Some(2) /\ CountOf({ "usage_error" }) = 1
              /\ NoHandlerRan
        /\ \A k \in 1..Len(log) :
              log[k].op = "md_init" =>
                  /\ log[k].driver.trajectory =
                        IF argv.trajectory = None THEN "md.traj" ELSE argv.trajectory[1]
                  /\ log[k].driver.logfile =
                        IF argv.logfile = None THEN "md.log" ELSE argv.logfile[1]
                  /\ log[k].driver.loginterval =
                        IF argv.loginterval = None THEN 100
                        ELSE IntTable[argv.loginterval[1]]
                  /\ argv.timestep # None
                  /\ log[k].driver.timestep = FloatTable[argv.timestep[1]]
                  /\ argv.ensemble # None
                  /\ log[k].driver.ensemble = argv.ensemble[1]
        /\ \A k \in 1..Len(log) :
              log[k].op = "md_run" =>
                  argv.nsteps # None /\ log[k].steps = IntTable[argv.nsteps[1]]

C5_Witness ==
    /\ argv.cmd = "md"
    /\ argv.trajectory = None
    /\ argv.logfile = None
    /\ argv.loginterval = None
    /\ argv.timestep = Some("0.5")
    /\ CountOf({ "md_run" }) >= 1
    /\ md.trajectory = "md.traj" /\ md.logfile = "md.log" /\ md.loginterval = 100
    /\ md.timestep = 5

\* C6: once a subcommand is selected and no external call fails, the handler
\* ends after all N >= 1 input files and returns 0, and main() returns the
\* handler's result; for relax and for md.
Finished == pc \in { "returned", "raised" }

C6_HandlerReturnsZero ==
    /\ [](HandlerReturned =>
            /\ handlerRet = Some(0)
            /\ N >= 1 /\ idx = N + 1
            /\ CountOf({ "read" }) = N
            /\ CountOf({ "raise" }) = 0
            /\ InRelax => CountOf({ "relax" }) = N /\ CountOf(OutputOps) = N
            /\ InMd => CountOf({ "md_init" }) = N /\ CountOf({ "md_run" }) = N)
    /\ [](pc = "returned" => mainRet = Some(0) /\ mainRet = handlerRet)
    /\ [](pc # "returned" => mainRet = None)
    /\ (pc = "parsed" /\ HasFunc(args)) ~> Finished

C6_Witness ==
    /\ pc = "returned"
    /\ InMd
    /\ N = MaxFiles
    /\ mainRet = Some(0)

\* C7: files are processed one at a time: all steps of file i (read, relax
\* or MD construction and run, output) are done before file i+1 is read, and
\* the steps of one file come in the order of the loop body.
StepOps == { "read", "relax", "write", "print_final", "md_init", "md_run" }
LastStepOps == { "write", "print_final", "md_run" }
StepRank(op) ==
    CASE op = "read" -> 1
      [] op \in { "relax", "md_init" } -> 2
      [] OTHER -> 3

C7_OneFileAtATime ==
    HasFunc(args) =>
        LET steps == EventsOf(StepOps)
        IN  /\ \A p \in 1..Len(steps) : \A q \in 1..Len(steps) :
                  p < q =>
                      \/ steps[p].i < steps[q].i
                      \/ /\ steps[p].i = steps[q].i
                         /\ StepRank(steps[p].op) < StepRank(steps[q].op)
            /\ \A q \in 1..Len(steps) :
                  /\ steps[q].op = "read" /\ steps[q].i > 1 =>
                        /\ q > 1
                        /\ steps[q - 1].i = steps[q].i - 1
                        /\ steps[q - 1].op \in LastStepOps
                  /\ steps[q].op # "read" =>
                        /\ q > 1
                        /\ steps[q - 1].i = steps[q].i
                        /\ StepRank(steps[q - 1].op) = StepRank(steps[q].op) - 1
            /\ Len(steps) >= 1 => steps[1].op = "read" /\ steps[1].i = 1

C7_Witness ==
    /\ InRelax
    /\ pc = "returned"
    /\ N = MaxFiles
    /\ CountOf(StepOps) = 3 * MaxFiles

\* C8: md over N files constructs N drivers, one per file in order, each on
\* that file's structure with the same parsed temperature, ensemble,
\* timestep, trajectory, log file and log interval, and runs each once for
\* the parsed -n steps; relax builds no driver and md never relaxes.
C8_MdOneDriverPerFile ==
    /\ InRelax => CountOf({ "md_init", "md_run" }) = 0
    /\ InMd =>
        LET inits == EventsOf({ "md_init" })
            runs == EventsOf({ "md_run" })
        IN  /\ CountOf({ "relax", "write", "print_final" }) = 0
            /\ Len(runs) = idx - 1
            /\ Len(inits) \in { Len(runs), Len(runs) + 1 }
            /\ pc = "md_run" => Len(inits) = idx
            /\ pc \in { "md_for", "md_init" } => Len(inits) = idx - 1
            /\ HandlerReturned => Len(inits) = N /\ Len(runs) = N
            /\ \A i \in 1..Len(inits) :
                  /\ inits[i].i = i
                  /\ ReadOf(i).path = args.infile[i]
                  /\ inits[i].driver.atoms = ReadOf(i).val
                  /\ inits[i].driver.temperature = FloatTable[argv.temp[1]]
                  /\ inits[i].driver.ensemble = argv.ensemble[1]
                  /\ inits[i].driver.timestep = FloatTable[argv.timestep[1]]
                  /\ inits[i].driver.temperature = inits[1].driver.temperature
                  /\ inits[i].driver.trajectory = inits[1].driver.trajectory
                  /\ inits[i].driver.logfile = inits[1].driver.logfile
                  /\ inits[i].driver.loginterval = inits[1].driver.loginterval
            /\ \A i \in 1..Len(runs) :
                  /\ runs[i].i = i
                  /\ runs[i].driver = inits[i].driver
                  /\ runs[i].steps = IntTable[argv.nsteps[1]]

C8_Witness ==
    /\ InMd
    /\ HandlerReturned
    /\ N = MaxFiles
    /\ CountOf({ "md_run" }) = MaxFiles
    /\ args.infile[1] # args.infile[2]

\* C9: a failing external call on the k-th file ends the run: the exception
\* leaves main(), the call is not made again, no later file is touched, no 0
\* is returned, and what was written for files 1..k-1 stays written.
RECURSIVE Replay(_, _)
Replay(events, k) ==
    IF k = 0 THEN [x \in {} |-> x]
    ELSE IF events[k].op = "write"
         THEN (events[k].path :> events[k].val) @@ Replay(events, k - 1)
         ELSE Replay(events, k - 1)

C9_FailurePropagates ==
    /\ \A p \in 1..Len(log) :
          log[p].op = "raise" => p = Len(log) /\ pc = "raised"
    /\ pc = "raised" =>
          /\ ~ENABLED Next
          /\ log[Len(log)].op = "raise"
          /\ log[Len(log)].i = idx
          /\ \A p \in 1..Len(log) : log[p].i <= idx
          /\ CountOf({ "read" }) \in { idx - 1, idx }
          /\ handlerRet = None
          /\ mainRet = None
          /\ exitCode = None
          /\ InRelax => CountOf(OutputOps) = idx - 1
          /\ files = Replay(log, Len(log))
    /\ PendingCall # "none" => ENABLED external_raise

C9_Witness ==
    /\ pc = "raised"
    /\ InRelax
    /\ idx = MaxFiles
    /\ CountOf({ "write" }) = MaxFiles - 1
    /\ DOMAIN files # {}

\* C10: relax with -o OUTFILE and N >= 2 files writes every relaxed
\* structure to OUTFILE, in input order, whatever the input names; each
\* write replaces the one before, so on return OUTFILE holds the relaxed
\* structure of the last input.
C10_OutfileOverwritten ==
    (InRelax /\ argv.outfile # None) =>
        LET writes == EventsOf({ "write" })
        IN  /\ Len(writes) = idx - 1
            /\ CountOf({ "print_final" }) = 0
            /\ \A i \in 1..Len(writes) :
                  /\ writes[i].i = i
                  /\ writes[i].path = argv.outfile[1]
                  /\ writes[i].val = FinalStructure(ReadOf(i).val)
            /\ DOMAIN files \subseteq { argv.outfile[1] }
            /\ Len(writes) >= 1 =>
                  files[argv.outfile[1]] = writes[Len(writes)].val
            /\ HandlerReturned =>
                  /\ Len(writes) = N
                  /\ files[argv.outfile[1]] = FinalStructure(ReadOf(N).val)

C10_Witness ==
    /\ InRelax
    /\ argv.outfile # None
    /\ pc = "returned"
    /\ N >= 2
    /\ args.infile[N - 1] # args.infile[N]
    /\ files[argv.outfile[1]].src = args.infile[N]
    /\ CountOf({ "write" }) = N

\* The scheduling of a single-threaded process: a step that can be taken is
\* taken.
FairSpec == Spec /\ WF_vars(Next)

====
